---- MODULE Spec2Model ----
(***************************************************************************)
(* Model of the robot State Manager (robot_manager.py, RobotManager) and   *)
(* of the JSON-RPC Command Dispatcher (web_server.py, handle_rpc_request). *)
(*                                                                         *)
(* Coordinates are integers.  Python dictionaries are records with the     *)
(* same keys; the "timestamp" key (wall clock) is left out of every        *)
(* dictionary.  Delays are in hundredths of a second.                      *)
(*                                                                         *)
(* Three specifications share the state of the manager:                    *)
(*   Spec         one caller issuing the manager's operations in turn      *)
(*   SpecThreads  several caller threads, each operation step by step      *)
(*   SpecRpc      the single-threaded serving loop handling request bodies *)
(***************************************************************************)
EXTENDS Integers, Sequences, FiniteSets, TLC

VARIABLES
    board,              \* RobotManager._board: NoneValue or a Board record
    camera,             \* RobotManager._camera: NoneValue or a Camera record
    robot_available,    \* RobotManager._robot_available
    position,           \* RobotManager._last_position
    gripper_open,       \* RobotManager._gripper_open
    emergency_stopped,  \* RobotManager._emergency_stopped
    op,                 \* Spec: the caller's last call and its arguments
    ret,                \* Spec: the outcome of that call
    slept,              \* Spec: hundredths of a second that call spent in time.sleep
    held,               \* SpecThreads: acquisitions of _robot_lock held per thread
    pc,                 \* SpecThreads: per thread, where it stands in its call
    call,               \* SpecThreads: per thread, the call and its arguments
    outcome,            \* SpecThreads: per thread, how its last call ended
    request,            \* SpecRpc: the last request body handled
    response,           \* SpecRpc: what handle_rpc_request did with it
    rpc_functions,      \* web_server.rpc_functions: the registered names
    imported,           \* robot_manager has been imported
    instance,           \* RobotManager._instance: 0 for None, else the object
    initialized,        \* _instance._initialized: "absent", "False" or "True"
    class_lock,         \* RobotManager._lock: the thread holding it, or 0
    ctor,               \* per thread, where it stands in RobotManager()
    got,                \* per thread, the object its last RobotManager() returned
    init_runs,          \* how often lines 36-46 of __init__ have run
    config,             \* generate_matrix.py: what load_config returns
    matrix              \* generate_matrix.py: what generate_matrix returned

manager == <<board, camera, robot_available, position, gripper_open,
             emergency_stopped>>
caller == <<op, ret, slept>>
threads == <<held, pc, call, outcome>>
rpc == <<request, response>>
registry == <<rpc_functions>>
singleton == <<imported, instance, initialized, class_lock, ctor, got, init_runs>>
ci == <<config, matrix>>

vars == <<manager, caller, threads, rpc, registry, singleton, ci>>

-----------------------------------------------------------------------------
(* Configuration: robot_config.py                                          *)

MaxPositionX == 300
MaxPositionY == 300
MaxPositionZ == 100

(* Bounds of the model                                                     *)
NumThreads == 2

Threads == 1..NumThreads

Abs(n) == IF n < 0 THEN -n ELSE n
Max(a, b) == IF a >= b THEN a ELSE b

-----------------------------------------------------------------------------
(* ArmPil_mini.py: the hardware stub                                       *)

\* Python's None
NoneValue == [type |-> "NoneType"]

\* truth value of an object reference: None is false, an instance is true
Truthy(v) == v.type # "NoneType"

NewBoard_Connected == [type |-> "Board", connected |-> TRUE, demo_mode |-> FALSE]

\* Board(): connected stays False and demo_mode True on every path
NewBoard == [type |-> "Board", connected |-> FALSE, demo_mode |-> TRUE]

\* Camera(): connected stays False and demo_mode True on every path
NewCamera == [type |-> "Camera", connected |-> FALSE, demo_mode |-> TRUE]

\* Board.move_to_position, set_gripper, emergency_stop: True in demo mode; the
\* other branch yields nothing the callers take as success
BoardCommand(b) == b.demo_mode

DemoImage == "iVBORw0KGgo"

\* Camera.capture_image: the demo image in demo mode, None otherwise
CameraCaptureImage(c) == IF c.demo_mode THEN DemoImage ELSE "None"

-----------------------------------------------------------------------------
(* RobotManager.__init__ and _initialize_hardware                          *)

InitialPosition == [x |-> 100, y |-> 50, z |-> 25]

\* the board, the camera and the availability flag after _initialize_hardware
InitializeHardware(forced) ==
    IF forced
    THEN [board |-> NoneValue, camera |-> NoneValue, robot_available |-> FALSE]
    ELSE [board |-> NewBoard, camera |-> NewCamera,
          robot_available |-> NewBoard.connected]

\* the manager's fields after __init__, as one record
NewManager(forced) ==
    [board |-> InitializeHardware(forced).board,
     camera |-> InitializeHardware(forced).camera,
     robot_available |-> InitializeHardware(forced).robot_available,
     position |-> InitialPosition,
     gripper_open |-> FALSE,
     emergency_stopped |-> FALSE]

\* the manager's fields in the current state, as one record
Manager ==
    [board |-> board, camera |-> camera, robot_available |-> robot_available,
     position |-> position, gripper_open |-> gripper_open,
     emergency_stopped |-> emergency_stopped]

\* the fields take the values of the record m
Store(m) ==
    /\ board' = m.board
    /\ camera' = m.camera
    /\ robot_available' = m.robot_available
    /\ position' = m.position
    /\ gripper_open' = m.gripper_open
    /\ emergency_stopped' = m.emergency_stopped

-----------------------------------------------------------------------------
(* Outcomes of a call                                                      *)

NoResult == [kind |-> "none"]
Returned(v) == [kind |-> "return", value |-> v]
Raised(e, msg) == [kind |-> "raise", exc |-> e, message |-> msg]

\* an operation's effect: the manager's fields afterwards and the outcome
Effect(m, out) == [m |-> m, out |-> out, ran |-> FALSE, slept |-> 0]

\* time.sleep on the way to the effect e, in hundredths of a second
Sleep(e, hundredths) == [e EXCEPT !.slept = hundredths]

EStopMessage == "Robot is in emergency stop state"

ContextRaises_Never(stopped) == FALSE

\* _robot_context, lines 96-97: raise when the flag is set
ContextRaises(stopped) == stopped

\* with self._robot_context(): the body runs unless the context raises
InContext(m, body) ==
    IF ContextRaises(m.emergency_stopped)
    THEN Effect(m, Raised("RuntimeError", EStopMessage))
    ELSE body

HardwarePath(m, dev) == m.robot_available /\ Truthy(dev)

-----------------------------------------------------------------------------
(* move_to_position                                                        *)

ValidatePosition_SymmetricZ(x, y, z) ==
    IF ~(-MaxPositionX <= x /\ x <= MaxPositionX) THEN "X"
    ELSE IF ~(-MaxPositionY <= y /\ y <= MaxPositionY) THEN "Y"
    ELSE IF ~(-MaxPositionZ <= z /\ z <= MaxPositionZ) THEN "Z"
    ELSE "ok"

ValidatePosition_OpenBox(x, y, z) ==
    IF ~(-MaxPositionX < x /\ x < MaxPositionX) THEN "X"
    ELSE IF ~(-MaxPositionY < y /\ y < MaxPositionY) THEN "Y"
    ELSE IF ~(0 < z /\ z < MaxPositionZ) THEN "Z"
    ELSE "ok"

\* lines 116-121: the axis of the first violated range, or "ok"
ValidatePosition(x, y, z) ==
    IF ~(-MaxPositionX <= x /\ x <= MaxPositionX) THEN "X"
    ELSE IF ~(-MaxPositionY <= y /\ y <= MaxPositionY) THEN "Y"
    ELSE IF ~(0 <= z /\ z <= MaxPositionZ) THEN "Z"
    ELSE "ok"

RangeMessage(axis) ==
    CASE axis = "X" -> "X position out of range"
      [] axis = "Y" -> "Y position out of range"
      [] axis = "Z" -> "Z position out of range"

PositionDict_SwapYZ(x, y, z) == [x |-> x, y |-> z, z |-> y]

\* {"x": x, "y": y, "z": z}
PositionDict(x, y, z) == [x |-> x, y |-> y, z |-> z]

\* max(0.5, abs(x - self._last_position["x"]) * 0.01), in hundredths of a second
MovementTime(last, x) == Max(50, Abs(x - last.x))

MoveDemoResult_Origin(last) ==
    [success |-> TRUE, message |-> "Demo: Simulated movement",
     position |-> InitialPosition, demo_mode |-> TRUE]

\* lines 143-149
MoveDemoResult(last) ==
    [success |-> TRUE, message |-> "Demo: Simulated movement", position |-> last,
     demo_mode |-> TRUE]

MoveHardwareResult(success, last) ==
    [success |-> success, message |-> "Moved to position", position |-> last]

\* lines 124-149, the body inside the context
MoveBody(m, x, y, z) ==
    IF HardwarePath(m, m.board)
    THEN LET success == BoardCommand(m.board)
             last == IF success THEN PositionDict(x, y, z) ELSE m.position
         IN  Effect([m EXCEPT !.position = last],
                    Returned(MoveHardwareResult(success, last)))
    ELSE LET last == PositionDict(x, y, z)
         IN  Sleep(Effect([m EXCEPT !.position = last],
                          Returned(MoveDemoResult(last))),
                   MovementTime(m.position, x))

move_to_position(m, x, y, z) ==
    LET v == ValidatePosition(x, y, z) IN
    IF v # "ok"
    THEN Effect(m, Raised("ValueError", RangeMessage(v)))
    ELSE InContext(m, MoveBody(m, x, y, z))

-----------------------------------------------------------------------------
(* control_gripper, lines 184-213                                          *)

GripperMessage(open_state) == IF open_state THEN "Gripper opened" ELSE "Gripper closed"

GripperBody_NoStore(m, open_state) ==
    Effect(m, Returned([success |-> TRUE,
                        message |-> "Demo: " \o GripperMessage(open_state),
                        gripper_open |-> open_state,
                        demo_mode |-> TRUE]))

GripperBody(m, open_state) ==
    IF HardwarePath(m, m.board)
    THEN LET success == BoardCommand(m.board)
             stored == IF success THEN open_state ELSE m.gripper_open
         IN  Effect([m EXCEPT !.gripper_open = stored],
                    Returned([success |-> success,
                              message |-> GripperMessage(open_state),
                              gripper_open |-> stored]))
    ELSE Sleep(Effect([m EXCEPT !.gripper_open = open_state],
                      Returned([success |-> TRUE,
                                message |-> "Demo: " \o GripperMessage(open_state),
                                gripper_open |-> open_state,
                                demo_mode |-> TRUE])),
               50)

control_gripper(m, open_state) == InContext(m, GripperBody(m, open_state))

-----------------------------------------------------------------------------
(* get_status, lines 100-111                                               *)

get_status_CopiedField(m) ==
    Effect(m, Returned(
        [robot_available |-> m.robot_available,
         board_connected |-> IF Truthy(m.board) THEN m.board.connected ELSE FALSE,
         camera_connected |-> IF Truthy(m.camera) THEN m.camera.connected ELSE FALSE,
         demo_mode |-> ~m.robot_available,
         emergency_stopped |-> ~m.robot_available,
         gripper_open |-> m.gripper_open]))

get_status(m) ==
    Effect(m, Returned(
        [robot_available |-> m.robot_available,
         board_connected |-> IF Truthy(m.board) THEN m.board.connected ELSE FALSE,
         camera_connected |-> IF Truthy(m.camera) THEN m.camera.connected ELSE FALSE,
         demo_mode |-> ~m.robot_available,
         emergency_stopped |-> m.emergency_stopped,
         gripper_open |-> m.gripper_open]))

-----------------------------------------------------------------------------
(* get_position, lines 151-182                                             *)

\* random.uniform(-1, 1) for x and y and random.uniform(-0.5, 0.5) for z, in
\* halves of a unit: no variation and the two extremes
VariationInputs == { <<0, 0, 0>>, <<2, 2, 1>>, <<-2, -2, -1>> }

\* Board.get_position in demo mode: (100, 50, 25) varied by up to 5, 5 and 2
BoardPositionInputs == { <<100, 50, 25>>, <<105, 45, 27>> }

DemoPosition_Wide(last, n) ==
    [x |-> 2 * last.x + 3 * n[1], y |-> 2 * last.y + 3 * n[2],
     z |-> 2 * last.z + 3 * n[3]]

\* the demo position, in halves of a unit
DemoPosition(last, n) ==
    [x |-> 2 * last.x + n[1], y |-> 2 * last.y + n[2], z |-> 2 * last.z + n[3]]

GetPositionBody_StoresReading(m, n, p) ==
    LET last == PositionDict(p[1], p[2], p[3])
    IN  Effect([m EXCEPT !.position = last], Returned([position |-> last]))

\* n is the draw of the demo variation, p the reading of the board
GetPositionBody(m, n, p) ==
    IF HardwarePath(m, m.board)
    THEN LET last == PositionDict(p[1], p[2], p[3])
         IN  Effect([m EXCEPT !.position = last], Returned([position |-> last]))
    ELSE Effect(m, Returned([position |-> DemoPosition(m.position, n),
                             demo_mode |-> TRUE]))

get_position(m, n, p) == InContext(m, GetPositionBody(m, n, p))

-----------------------------------------------------------------------------
(* capture_image, lines 215-239                                            *)

CaptureBody_CameraOnly(m) ==
    IF Truthy(m.camera)
    THEN Effect(m, Returned([success |-> TRUE,
                             image_data |-> CameraCaptureImage(m.camera)]))
    ELSE Effect(m, Returned([success |-> TRUE, image_data |-> DemoImage,
                             demo_mode |-> TRUE,
                             message |-> "Demo image captured"]))

CaptureBody(m) ==
    IF HardwarePath(m, m.camera)
    THEN Effect(m, Returned([success |-> TRUE,
                             image_data |-> CameraCaptureImage(m.camera)]))
    ELSE Sleep(Effect(m, Returned([success |-> TRUE, image_data |-> DemoImage,
                                   demo_mode |-> TRUE,
                                   message |-> "Demo image captured"])),
               30)

capture_image(m) == InContext(m, CaptureBody(m))

-----------------------------------------------------------------------------
(* emergency_stop, reset_emergency_stop, shutdown: lines 241-308           *)

emergency_stop_Toggle(m) ==
    Effect([m EXCEPT !.emergency_stopped = ~m.emergency_stopped],
           Returned([success |-> TRUE,
                     message |-> "Demo: Emergency stop activated",
                     emergency_stopped |-> TRUE,
                     demo_mode |-> TRUE]))

emergency_stop(m) ==
    Effect([m EXCEPT !.emergency_stopped = TRUE],
           Returned(IF HardwarePath(m, m.board)
                    THEN [success |-> BoardCommand(m.board),
                          message |-> "Emergency stop activated",
                          emergency_stopped |-> TRUE]
                    ELSE [success |-> TRUE,
                          message |-> "Demo: Emergency stop activated",
                          emergency_stopped |-> TRUE,
                          demo_mode |-> TRUE]))

reset_emergency_stop(m) ==
    Effect([m EXCEPT !.emergency_stopped = FALSE],
           Returned([success |-> TRUE, message |-> "Emergency stop reset",
                     emergency_stopped |-> FALSE]))

shutdown(m) ==
    Effect([m EXCEPT !.board = NoneValue, !.camera = NoneValue,
                     !.robot_available = FALSE],
           Returned(NoneValue))

-----------------------------------------------------------------------------
(* Arguments the callers pass                                              *)

\* in-range targets (boundary values included) and targets with one or several
\* coordinates out of range
TargetInputs ==
    { <<10, 20, 5>>,
      <<-MaxPositionX, MaxPositionY, MaxPositionZ>>,
      <<MaxPositionX, -MaxPositionY, 0>>,
      <<10, -20, 5>>,
      <<99999, 0, 0>>,
      <<0, -MaxPositionY - 1, 0>>,
      <<0, 0, -1>>,
      <<0, MaxPositionY + 1, -1>>,
      <<MaxPositionX + 1, MaxPositionY + 1, MaxPositionZ + 1>> }

\* the targets the threads of SpecThreads pass
ThreadTargetInputs ==
    { <<10, 20, 5>>,
      <<-MaxPositionX, MaxPositionY, MaxPositionZ>>,
      <<99999, 0, 0>> }

\* the calls without arguments
PlainOps == {"get_status", "capture_image", "emergency_stop",
             "reset_emergency_stop", "shutdown"}

\* the effect of a call without arguments on the manager m
PlainEffect(name, m) ==
    CASE name = "get_status" -> get_status(m)
      [] name = "capture_image" -> capture_image(m)
      [] name = "emergency_stop" -> emergency_stop(m)
      [] name = "reset_emergency_stop" -> reset_emergency_stop(m)
      [] name = "shutdown" -> shutdown(m)

-----------------------------------------------------------------------------
(* Spec: one caller issues the operations one after the other.  op keeps   *)
(* the call, its arguments and the manager's fields as they were when the  *)
(* call was made.                                                          *)

\* the call c, made on the current manager, has the effect e
Finish(c, e) ==
    /\ Store(e.m)
    /\ op' = c @@ [before |-> Manager]
    /\ ret' = e.out
    /\ slept' = e.slept
    /\ UNCHANGED <<threads, rpc, registry, ci, singleton>>

MoveToPosition(x, y, z) ==
    Finish([name |-> "move_to_position", x |-> x, y |-> y, z |-> z],
           move_to_position(Manager, x, y, z))

ControlGripper(open_state) ==
    Finish([name |-> "control_gripper", open_state |-> open_state],
           control_gripper(Manager, open_state))

GetPosition(n, p) ==
    Finish([name |-> "get_position"], get_position(Manager, n, p))

GetStatus == Finish([name |-> "get_status"], get_status(Manager))

CaptureImage == Finish([name |-> "capture_image"], capture_image(Manager))

EmergencyStop == Finish([name |-> "emergency_stop"], emergency_stop(Manager))

ResetEmergencyStop ==
    Finish([name |-> "reset_emergency_stop"], reset_emergency_stop(Manager))

Shutdown == Finish([name |-> "shutdown"], shutdown(Manager))

\* rpc_functions once web_server is loaded: the names the rpc_register
\* decorators have stored, in registration order
RpcFunctions ==
    << "get_robot_status", "move_robot", "get_robot_position", "control_gripper",
       "capture_image", "emergency_stop", "get_available_functions",
       "reset_emergency_stop", "list_3d_models" >>

NoCall == [name |-> "none"]
NoRequest == [kind |-> "none"]
NoResponse == [sent |-> <<>>, escaped |-> FALSE, ran |-> FALSE]

\* generate_matrix.py has not run
NoConfig == [loaded |-> FALSE]
NoMatrix == [generated |-> FALSE]

\* after RobotManager(): config.force_demo_mode may be set or not
Init ==
    /\ \E forced \in BOOLEAN :
           /\ board = NewManager(forced).board
           /\ camera = NewManager(forced).camera
           /\ robot_available = NewManager(forced).robot_available
           /\ position = NewManager(forced).position
           /\ gripper_open = NewManager(forced).gripper_open
           /\ emergency_stopped = NewManager(forced).emergency_stopped
    /\ op = NoCall @@ [before |-> Manager]
    /\ ret = NoResult
    /\ slept = 0
    /\ held = [t \in Threads |-> 0]
    /\ pc = [t \in Threads |-> "idle"]
    /\ call = [t \in Threads |-> NoCall]
    /\ outcome = [t \in Threads |-> <<"none">>]
    /\ request = NoRequest
    /\ response = NoResponse
    /\ rpc_functions = RpcFunctions
    /\ imported = TRUE
    /\ instance = 1
    /\ initialized = "True"
    /\ class_lock = 0
    /\ ctor = [t \in Threads |-> "idle"]
    /\ got = [t \in Threads |-> 0]
    /\ init_runs = 1
    /\ config = NoConfig
    /\ matrix = NoMatrix

Next ==
    \/ \E t \in TargetInputs : MoveToPosition(t[1], t[2], t[3])
    \/ \E b \in BOOLEAN : ControlGripper(b)
    \/ \E n \in VariationInputs, p \in BoardPositionInputs : GetPosition(n, p)
    \/ GetStatus
    \/ CaptureImage
    \/ EmergencyStop
    \/ ResetEmergencyStop
    \/ Shutdown

Spec == Init /\ [][Next]_vars

-----------------------------------------------------------------------------
(* SpecThreads: several threads call the manager; each call is taken step  *)
(* by step: enter, take the lock, pass the context's check, run the body,  *)
(* release the lock on the way out.                                        *)

\* operations that run inside _robot_context
ContextOps == {"move_to_position", "get_position", "control_gripper", "capture_image"}

CanAcquire_NoExclusion(t) == TRUE

\* threading.RLock, line 37: free, or already owned by the caller
CanAcquire(t) == \A u \in Threads \ {t} : held[u] = 0

LockAcquire(t) == held' = [held EXCEPT ![t] = @ + 1]

LockRelease_Kept(t) == held' = held

\* leaving the with-block, by return or by exception
LockRelease(t) == held' = [held EXCEPT ![t] = @ - 1]

\* how the call named name ended, as the caller sees it: a return, or the
\* exception with the call that raised it
OutcomeKind(name, out) ==
    IF out.kind = "raise" THEN <<out.exc, name>> ELSE <<"return">>

\* thread t enters the call c, which goes on to take the lock
Enter(t, c) ==
    /\ pc[t] = "idle"
    /\ call' = [call EXCEPT ![t] = c]
    /\ pc' = [pc EXCEPT ![t] = "acquire"]
    /\ outcome' = [outcome EXCEPT ![t] = <<"none">>]
    /\ UNCHANGED <<manager, held, caller, rpc, registry, ci, singleton>>

\* thread t leaves the with-block and the call: the lock is released
Leave(t, out) ==
    /\ LockRelease(t)
    /\ pc' = [pc EXCEPT ![t] = "idle"]
    /\ call' = [call EXCEPT ![t] = NoCall]
    /\ outcome' = [outcome EXCEPT ![t] = OutcomeKind(call[t].name, out)]
    /\ UNCHANGED <<caller, rpc, registry, ci, singleton>>

ThreadMoveToPosition_LockFirst(t, x, y, z) ==
    Enter(t, [name |-> "move_to_position", x |-> x, y |-> y, z |-> z])

\* move_to_position, lines 116-123: the arguments are validated before the
\* context is entered; a ValueError ends the call at once
ThreadMoveToPosition(t, x, y, z) ==
    LET v == ValidatePosition(x, y, z) IN
    IF v # "ok"
    THEN /\ pc[t] = "idle"
         /\ outcome' = [outcome EXCEPT ![t] =
                          OutcomeKind("move_to_position",
                                      move_to_position(Manager, x, y, z).out)]
         /\ UNCHANGED <<manager, held, pc, call, caller, rpc, registry, ci, singleton>>
    ELSE Enter(t, [name |-> "move_to_position", x |-> x, y |-> y, z |-> z])

ThreadControlGripper(t, open_state) ==
    Enter(t, [name |-> "control_gripper", open_state |-> open_state])

ThreadGetPosition(t) == Enter(t, [name |-> "get_position"])

\* get_status, capture_image, emergency_stop, reset_emergency_stop, shutdown
ThreadPlainCall(t, name) == Enter(t, [name |-> name])

\* with self._robot_lock: the thread waits until the lock can be taken
Acquire(t) ==
    /\ pc[t] = "acquire"
    /\ CanAcquire(t)
    /\ LockAcquire(t)
    /\ pc' = [pc EXCEPT ![t] = IF call[t].name \in ContextOps THEN "check" ELSE "body"]
    /\ UNCHANGED <<manager, call, outcome, caller, rpc, registry, ci, singleton>>

\* _robot_context with the lock taken: raise, or yield to the body
RobotContext(t) ==
    /\ pc[t] = "check"
    /\ IF ContextRaises(emergency_stopped)
       THEN Leave(t, Raised("RuntimeError", EStopMessage))
       ELSE /\ pc' = [pc EXCEPT ![t] = "body"]
            /\ UNCHANGED <<held, call, outcome, caller, rpc, registry, ci, singleton>>
    /\ UNCHANGED manager

\* move_to_position, lines 139-141: the movement is being simulated
MoveSleep(t) ==
    /\ pc[t] = "body"
    /\ call[t].name = "move_to_position"
    /\ pc' = [pc EXCEPT ![t] = "sleep"]
    /\ UNCHANGED <<manager, held, call, outcome, caller, rpc, registry, ci, singleton>>

\* move_to_position, lines 142-149: the target is stored and the call returns
MoveStore(t) ==
    /\ pc[t] = "sleep"
    /\ call[t].name = "move_to_position"
    /\ LET e == MoveBody(Manager, call[t].x, call[t].y, call[t].z)
       IN  Store(e.m) /\ Leave(t, e.out)

\* control_gripper, lines 204-206: the state is stored, then the sleep begins
GripperStore(t) ==
    /\ pc[t] = "body"
    /\ call[t].name = "control_gripper"
    /\ Store(GripperBody(Manager, call[t].open_state).m)
    /\ pc' = [pc EXCEPT ![t] = "sleep"]
    /\ UNCHANGED <<held, call, outcome, caller, rpc, registry, ci, singleton>>

\* control_gripper, lines 207-213: the call returns
GripperReturn(t) ==
    /\ pc[t] = "sleep"
    /\ call[t].name = "control_gripper"
    /\ Leave(t, Returned([gripper_open |-> gripper_open]))
    /\ UNCHANGED manager

\* get_position inside the context
PositionBody(t) ==
    /\ pc[t] = "body"
    /\ call[t].name = "get_position"
    /\ \E n \in VariationInputs, p \in BoardPositionInputs :
           LET e == GetPositionBody(Manager, n, p) IN Store(e.m) /\ Leave(t, e.out)

\* capture_image inside the context
CaptureBodyStep(t) ==
    /\ pc[t] = "body"
    /\ call[t].name = "capture_image"
    /\ LET e == CaptureBody(Manager) IN Store(e.m) /\ Leave(t, e.out)

\* get_status, emergency_stop, reset_emergency_stop, shutdown under the lock
PlainBody(t) ==
    /\ pc[t] = "body"
    /\ call[t].name \in PlainOps \ {"capture_image"}
    /\ LET e == PlainEffect(call[t].name, Manager) IN Store(e.m) /\ Leave(t, e.out)

NextThreads ==
    \E t \in Threads :
        \/ \E a \in ThreadTargetInputs : ThreadMoveToPosition(t, a[1], a[2], a[3])
        \/ \E b \in BOOLEAN : ThreadControlGripper(t, b)
        \/ ThreadGetPosition(t)
        \/ \E name \in PlainOps : ThreadPlainCall(t, name)
        \/ Acquire(t)
        \/ RobotContext(t)
        \/ MoveSleep(t)
        \/ MoveStore(t)
        \/ GripperStore(t)
        \/ GripperReturn(t)
        \/ PositionBody(t)
        \/ CaptureBodyStep(t)
        \/ PlainBody(t)

SpecThreads == Init /\ [][NextThreads]_vars

\* the steps of a call once the lock is taken
Proceed(t) ==
    \/ RobotContext(t)
    \/ MoveSleep(t)
    \/ MoveStore(t)
    \/ GripperStore(t)
    \/ GripperReturn(t)
    \/ PositionBody(t)
    \/ CaptureBodyStep(t)
    \/ PlainBody(t)

\* fair scheduling: a thread inside a call keeps running (the sleeps end), and
\* a thread that can take the lock again and again does take it; threads
\* need not make further calls
SpecThreadsFair ==
    /\ Init /\ [][NextThreads]_vars
    /\ \A t \in Threads : WF_vars(Proceed(t)) /\ SF_vars(Acquire(t))

-----------------------------------------------------------------------------
(* SpecSingleton: RobotManager() taken line by line.  The first call is    *)
(* the one at the end of the module, made by the thread that imports it;   *)
(* any other caller has the class from the imported module.                *)

\* the fields before __init__ has run: the attributes do not exist yet
Unconstructed ==
    [board |-> NoneValue, camera |-> NoneValue, robot_available |-> FALSE,
     position |-> [x |-> 0, y |-> 0, z |-> 0], gripper_open |-> FALSE,
     emergency_stopped |-> FALSE]

\* the process before robot_manager is imported
Unimported ==
    /\ board = Unconstructed.board
    /\ camera = Unconstructed.camera
    /\ robot_available = Unconstructed.robot_available
    /\ position = Unconstructed.position
    /\ gripper_open = Unconstructed.gripper_open
    /\ emergency_stopped = Unconstructed.emergency_stopped
    /\ op = NoCall @@ [before |-> Manager]
    /\ ret = NoResult
    /\ slept = 0
    /\ held = [t \in Threads |-> 0]
    /\ pc = [t \in Threads |-> "idle"]
    /\ call = [t \in Threads |-> NoCall]
    /\ outcome = [t \in Threads |-> <<"none">>]
    /\ request = NoRequest
    /\ response = NoResponse
    /\ rpc_functions = RpcFunctions
    /\ imported = FALSE
    /\ instance = 0
    /\ initialized = "absent"
    /\ class_lock = 0
    /\ ctor = [t \in Threads |-> "idle"]
    /\ got = [t \in Threads |-> 0]
    /\ init_runs = 0

InitSingleton ==
    /\ Unimported
    /\ config = NoConfig
    /\ matrix = NoMatrix

CanConstruct_BeforeImport(t) == TRUE

\* the class is reached through the module: the thread that imports it runs
\* the module's own RobotManager() and the others wait for the import
CanConstruct(t) == imported \/ \A u \in Threads : ctor[u] = "idle"

At(t, line) == ctor' = [ctor EXCEPT ![t] = line]

\* RobotManager() is called
Construct(t) ==
    /\ ctor[t] = "idle"
    /\ CanConstruct(t)
    /\ At(t, "new")
    /\ UNCHANGED <<manager, caller, threads, rpc, registry, ci,
                   imported, instance, initialized, class_lock, got, init_runs>>

\* line 24
NewFirstCheck(t) ==
    /\ ctor[t] = "new"
    /\ At(t, IF instance = 0 THEN "lock" ELSE "return")
    /\ UNCHANGED <<manager, caller, threads, rpc, registry, ci,
                   imported, instance, initialized, class_lock, got, init_runs>>

\* line 25
NewLock(t) ==
    /\ ctor[t] = "lock"
    /\ class_lock = 0
    /\ class_lock' = t
    /\ At(t, "check")
    /\ UNCHANGED <<manager, caller, threads, rpc, registry, ci,
                   imported, instance, initialized, got, init_runs>>

\* line 26; the with-block ends here when there is an instance by now
NewSecondCheck(t) ==
    /\ ctor[t] = "check"
    /\ IF instance = 0
       THEN At(t, "create") /\ UNCHANGED class_lock
       ELSE At(t, "return") /\ class_lock' = 0
    /\ UNCHANGED <<manager, caller, threads, rpc, registry, ci,
                   imported, instance, initialized, got, init_runs>>

\* line 27: the new object has no _initialized attribute yet
NewCreate(t) ==
    /\ ctor[t] = "create"
    /\ instance' = instance + 1
    /\ initialized' = "absent"
    /\ At(t, "mark")
    /\ UNCHANGED <<manager, caller, threads, rpc, registry, ci,
                   imported, class_lock, got, init_runs>>

\* line 28, and the end of the with-block
NewMark(t) ==
    /\ ctor[t] = "mark"
    /\ initialized' = "False"
    /\ class_lock' = 0
    /\ At(t, "return")
    /\ UNCHANGED <<manager, caller, threads, rpc, registry, ci,
                   imported, instance, got, init_runs>>

\* line 29: __new__ returns the class's instance, and __init__ is called on it
NewReturn(t) ==
    /\ ctor[t] = "return"
    /\ got' = [got EXCEPT ![t] = instance]
    /\ At(t, "init")
    /\ UNCHANGED <<manager, caller, threads, rpc, registry, ci,
                   imported, instance, initialized, class_lock, init_runs>>

\* RobotManager() has returned to its caller; for the importing thread this
\* ends the import
Constructed(t) ==
    /\ At(t, "idle")
    /\ imported' = TRUE

\* lines 33-34
InitGuard(t) ==
    /\ ctor[t] = "init"
    /\ IF initialized = "True"
       THEN Constructed(t)
       ELSE At(t, "set") /\ UNCHANGED imported
    /\ UNCHANGED <<manager, caller, threads, rpc, registry, ci,
                   instance, initialized, class_lock, got, init_runs>>

\* line 36
InitMark(t) ==
    /\ ctor[t] = "set"
    /\ initialized' = "True"
    /\ At(t, "body")
    /\ UNCHANGED <<manager, caller, threads, rpc, registry, ci,
                   imported, instance, class_lock, got, init_runs>>

\* lines 37-46: a fresh lock, the defaults, the hardware
InitBody(t) ==
    /\ ctor[t] = "body"
    /\ held' = [u \in Threads |-> 0]
    /\ \E forced \in BOOLEAN : Store(NewManager(forced))
    /\ init_runs' = init_runs + 1
    /\ Constructed(t)
    /\ UNCHANGED <<caller, pc, call, outcome, rpc, registry, ci,
                   instance, initialized, class_lock, got>>

\* a call on the manager, by whoever has it from the imported module
Operation ==
    /\ imported
    /\ Next

NextSingleton ==
    \/ \E t \in Threads :
          \/ Construct(t)
          \/ NewFirstCheck(t)
          \/ NewLock(t)
          \/ NewSecondCheck(t)
          \/ NewCreate(t)
          \/ NewMark(t)
          \/ NewReturn(t)
          \/ InitGuard(t)
          \/ InitMark(t)
          \/ InitBody(t)
    \/ Operation

SpecSingleton == InitSingleton /\ [][NextSingleton]_vars

-----------------------------------------------------------------------------
(* web_server.py: JSON values, as json.loads hands them to the handler     *)

JNull == [t |-> "null"]
JBool(b) == [t |-> "boolean", b |-> b]
JNum(n) == [t |-> "number", n |-> n]
JStr(str) == [t |-> "string", s |-> str]
JArr(items) == [t |-> "array", items |-> items]
JObj(members) == [t |-> "object", members |-> members]

EmptyMembers == [k \in {} |-> JNull]

\* key in v: membership for a dict (its keys) and for a list (its items); for
\* a str it is the substring test, which on the strings of RequestInputs is
\* equality; any other value is not iterable
PyContains(v, key) ==
    CASE v.t = "object" -> Returned(key \in DOMAIN v.members)
      [] v.t = "array" -> Returned(\E i \in DOMAIN v.items : v.items[i] = JStr(key))
      [] v.t = "string" -> Returned(v.s = key)
      [] OTHER -> Raised("TypeError", "argument is not iterable")

\* v[key] for a str key
PySubscript(v, key) ==
    CASE v.t = "object" ->
             IF key \in DOMAIN v.members THEN Returned(v.members[key])
             ELSE Raised("KeyError", key)
      [] v.t \in {"array", "string"} ->
             Raised("TypeError", "indices must be integers")
      [] OTHER -> Raised("TypeError", "object is not subscriptable")

\* v.get(key, default)
PyGet(v, key, default) ==
    IF v.t = "object"
    THEN Returned(IF key \in DOMAIN v.members THEN v.members[key] ELSE default)
    ELSE Raised("AttributeError", "object has no attribute 'get'")

\* lists and dicts cannot be looked up in a dict
Hashable(v) == v.t \notin {"array", "object"}

\* int, float and bool take part in comparisons with numbers
IsNumber(v) == v.t \in {"number", "boolean"}
NumValue(v) == IF v.t = "number" THEN v.n ELSE IF v.b THEN 1 ELSE 0

\* str(v) for the values that reach a message
PyStr(v) == IF v.t = "string" THEN v.s ELSE "None"

-----------------------------------------------------------------------------
(* The RPC functions, lines 28-220                                         *)

\* method_name in rpc_functions
Registered(name) == \E i \in DOMAIN rpc_functions : rpc_functions[i] = name

\* the parameters of each function; none has a default
Signature(name) ==
    CASE name = "move_robot" -> <<"x", "y", "z">>
      [] name = "control_gripper" -> <<"open_state">>
      [] OTHER -> <<>>

\* robot_manager.move_to_position on the values of a request: the ranges are
\* compared in the order x, y, z and comparing a value that is no number
\* raises TypeError
MoveValues(m, x, y, z) ==
    LET a == <<x, y, z>>
        num == [i \in 1..3 |-> IF IsNumber(a[i]) THEN NumValue(a[i]) ELSE 0]
        v == ValidatePosition(num[1], num[2], num[3])
        first == CASE v = "X" -> 1 [] v = "Y" -> 2 [] v = "Z" -> 3 [] OTHER -> 4
    IN  IF \E i \in 1..3 : ~IsNumber(a[i]) /\ i < first
        THEN Effect(m, Raised("TypeError", "'<=' not supported"))
        ELSE move_to_position(m, num[1], num[2], num[3])

\* lines 67-85: the three except clauses of rpc_move_robot, applied to the
\* effect e of the manager's call
MoveGuarded(e) ==
    Effect(e.m, Returned(
        IF e.out.kind = "return" THEN e.out.value
        ELSE IF e.out.exc = "ValueError"
        THEN [success |-> FALSE, error |-> "Invalid parameters: " \o e.out.message]
        ELSE IF e.out.exc = "RuntimeError"
        THEN [success |-> FALSE, error |-> "Robot error: " \o e.out.message]
        ELSE [success |-> FALSE, error |-> "Unexpected error: " \o e.out.message]))

rpc_move_robot_Propagates(m, x, y, z) == MoveValues(m, x, y, z)

\* lines 62-85
rpc_move_robot(m, x, y, z) == MoveGuarded(MoveValues(m, x, y, z))

\* a function that returns the manager's result, or on any exception the
\* dictionary made of the fields fallback and the error text
Guarded_Propagates(e, fallback, prefix) == e

Guarded(e, fallback, prefix) ==
    Effect(e.m, Returned(IF e.out.kind = "return" THEN e.out.value
                         ELSE fallback @@ [error |-> prefix \o e.out.message]))

Failure == [success |-> FALSE]

\* lines 45-59
rpc_get_robot_status(m) ==
    Guarded(get_status(m),
            [robot_available |-> FALSE, board_connected |-> FALSE,
             camera_connected |-> FALSE, demo_mode |-> TRUE], "")

\* lines 88-98
rpc_get_robot_position(m, n, p) ==
    Guarded(get_position(m, n, p), EmptyMembers, "Position error: ")

\* lines 101-112; open_state is a JSON boolean in RequestInputs
rpc_control_gripper(m, open_state) ==
    Guarded(control_gripper(m, open_state.b), Failure, "Gripper error: ")

\* lines 115-126
rpc_capture_image(m) == Guarded(capture_image(m), Failure, "Image capture error: ")

\* lines 129-140
rpc_emergency_stop(m) == Guarded(emergency_stop(m), Failure, "Emergency stop error: ")

\* lines 166-177
rpc_reset_emergency_stop(m) ==
    Guarded(reset_emergency_stop(m), Failure, "Reset error: ")

rpc_get_available_functions_Stale(m) ==
    LET status == get_status(m).out.value
        listed == SubSeq(rpc_functions, 1, Len(rpc_functions) - 1)
    IN  Effect(m, Returned([functions |-> listed, count |-> Len(listed),
                            demo_mode |-> status.demo_mode,
                            robot_available |-> status.robot_available]))

\* lines 143-163
rpc_get_available_functions(m) ==
    LET status == get_status(m).out.value IN
    Effect(m, Returned([functions |-> rpc_functions, count |-> Len(rpc_functions),
                        demo_mode |-> status.demo_mode,
                        robot_available |-> status.robot_available]))

\* lines 180-220: the models directory is missing, or is listed
rpc_list_3d_models(m, models_dir_exists) ==
    Effect(m, Returned(IF models_dir_exists
                       THEN [models |-> <<>>, count |-> 0,
                             supported_formats |-> <<".gltf", ".glb", ".obj",
                                                     ".stl", ".ply">>]
                       ELSE [models |-> <<>>,
                             message |-> "No models directory found"]))

\* what the handlers draw from outside the request: the demo variation, the
\* board's reading and whether the models directory exists
EnvInputs ==
    [n : VariationInputs, p : BoardPositionInputs, models_dir_exists : BOOLEAN]

\* rpc_functions[name] called with the bound arguments a
CallFunction(name, m, a, env) ==
    CASE name = "get_robot_status" -> rpc_get_robot_status(m)
      [] name = "move_robot" -> rpc_move_robot(m, a.x, a.y, a.z)
      [] name = "get_robot_position" -> rpc_get_robot_position(m, env.n, env.p)
      [] name = "control_gripper" -> rpc_control_gripper(m, a.open_state)
      [] name = "capture_image" -> rpc_capture_image(m)
      [] name = "emergency_stop" -> rpc_emergency_stop(m)
      [] name = "get_available_functions" -> rpc_get_available_functions(m)
      [] name = "reset_emergency_stop" -> rpc_reset_emergency_stop(m)
      [] name = "list_3d_models" -> rpc_list_3d_models(m, env.models_dir_exists)

-----------------------------------------------------------------------------
(* RobotWebHandler.handle_rpc_request, lines 351-435                       *)

ParseErrorCode == -32700
MethodNotFoundCode == -32601
InternalErrorCode == -32603

ResultEnvelope(result, id) == [jsonrpc |-> "2.0", result |-> result, id |-> id]

ErrorEnvelope(code, message, data, id) ==
    [jsonrpc |-> "2.0",
     error |-> [code |-> code, message |-> message, data |-> data],
     id |-> id]

HttpResponse(status, body) == [status |-> status, body |-> body]

\* the arguments of f(**params) for a dict, f(*params) for a list and f()
\* otherwise, bound to the parameters sig; a mismatch raises TypeError
BindArguments_NoPositional(sig, params) ==
    IF params.t = "object" /\ DOMAIN params.members = {sig[i] : i \in DOMAIN sig}
    THEN Returned(params.members)
    ELSE IF params.t # "object" /\ Len(sig) = 0
    THEN Returned(EmptyMembers)
    ELSE Raised("TypeError", "missing required arguments")

BindArguments(sig, params) ==
    LET names == {sig[i] : i \in DOMAIN sig} IN
    IF params.t = "object"
    THEN IF DOMAIN params.members = names
         THEN Returned(params.members)
         ELSE Raised("TypeError", "unexpected or missing argument")
    ELSE IF params.t = "array"
    THEN IF Len(params.items) = Len(sig)
         THEN Returned([k \in names |->
                          params.items[CHOOSE i \in DOMAIN sig : sig[i] = k]])
         ELSE Raised("TypeError", "wrong number of arguments")
    ELSE IF Len(sig) = 0
         THEN Returned(EmptyMembers)
         ELSE Raised("TypeError", "missing required arguments")

\* lines 384-389: the call by the shape of params; the function runs only
\* when the arguments fit its signature
Invoke(name, params, m, env) ==
    LET bound == BindArguments(Signature(name), params) IN
    IF bound.kind = "return"
    THEN [CallFunction(name, m, bound.value, env) EXCEPT !.ran = TRUE]
    ELSE Effect(m, bound)

\* lines 354-360: the body as the handler reads and decodes it
Decode(body) ==
    CASE body.raw = "bad_length" ->
             Raised("ValueError", "invalid literal for int() with base 10")
      [] body.raw = "empty" -> Raised("ValueError", "Empty request body")
      [] body.raw = "not_utf8" ->
             Raised("UnicodeDecodeError", "'utf-8' codec can't decode byte")
      [] body.raw = "invalid_json" -> Raised("JSONDecodeError", "Expecting value")
      [] body.raw = "json" -> Returned(body.value)

\* the clause "except Exception" of lines 396 and 419 catches every exception
\* class that the try blocks can raise
ExceptionClasses ==
    {"ValueError", "UnicodeDecodeError", "JSONDecodeError", "TypeError",
     "KeyError", "AttributeError", "RuntimeError"}

CaughtByCallGuard_ValueErrorOnly(exc) ==
    exc \in {"ValueError", "UnicodeDecodeError", "JSONDecodeError"}

CaughtByRequestGuard_ValueErrorOnly(exc) ==
    exc \in {"ValueError", "UnicodeDecodeError", "JSONDecodeError"}

\* line 396
CaughtByCallGuard(exc) == exc \in ExceptionClasses

\* line 419
CaughtByRequestGuard(exc) == exc \in ExceptionClasses

MethodNotFound_NullId(method, id) ==
    ErrorEnvelope(MethodNotFoundCode, "Method '" \o PyStr(method) \o "' not found",
                  [available_methods |-> rpc_functions], JNull)

\* lines 372-380
MethodNotFound(method, id) ==
    ErrorEnvelope(MethodNotFoundCode, "Method '" \o PyStr(method) \o "' not found",
                  [available_methods |-> rpc_functions], id)

CallResponse_NotFoundCode(e, name, id) ==
    IF e.out.kind = "return"
    THEN [e EXCEPT !.out =
            Returned(HttpResponse(200, ResultEnvelope(e.out.value, id)))]
    ELSE [e EXCEPT !.out =
            Returned(HttpResponse(200,
                ErrorEnvelope(MethodNotFoundCode, "Internal error in " \o name,
                              [error_details |-> e.out.message], id)))]

\* lines 391-406: the response for the effect e of the call of name
CallResponse(e, name, id) ==
    IF e.out.kind = "return"
    THEN [e EXCEPT !.out =
            Returned(HttpResponse(200, ResultEnvelope(e.out.value, id)))]
    ELSE IF CaughtByCallGuard(e.out.exc)
    THEN [e EXCEPT !.out =
            Returned(HttpResponse(200,
                ErrorEnvelope(InternalErrorCode, "Internal error in " \o name,
                              [error_details |-> e.out.message], id)))]
    ELSE e

\* lines 371-406: the registry lookup and the guarded call
Dispatch(m, method, params, id, env) ==
    IF ~Hashable(method)
    THEN Effect(m, Raised("TypeError", "unhashable type"))
    ELSE IF ~(method.t = "string" /\ Registered(method.s))
    THEN Effect(m, Returned(HttpResponse(200, MethodNotFound(method, id))))
    ELSE CallResponse(Invoke(method.s, params, m, env), method.s, id)

\* lines 353-417: the try block, up to the response it sends
TryBlock(m, body, env) ==
    LET d == Decode(body)
        has == PyContains(d.value, "method")
        method == PySubscript(d.value, "method")
        params == PyGet(d.value, "params", JObj(EmptyMembers))
        id == PyGet(d.value, "id", JNull)
    IN  IF d.kind = "raise" THEN Effect(m, d)
        ELSE IF has.kind = "raise" THEN Effect(m, has)
        ELSE IF ~has.value
        THEN Effect(m, Raised("ValueError", "Missing 'method' in request"))
        ELSE IF method.kind = "raise" THEN Effect(m, method)
        ELSE IF params.kind = "raise" THEN Effect(m, params)
        ELSE IF id.kind = "raise" THEN Effect(m, id)
        ELSE Dispatch(m, method.value, params.value, id.value, env)

\* lines 419-435
ParseErrorResponse(message) ==
    HttpResponse(400, ErrorEnvelope(ParseErrorCode, "Parse error",
                                    [error_details |-> message], JNull))

\* lines 408-435: what the client receives for the effect e of the try block
\* and what leaves the handler
Respond(e) ==
    LET caught == e.out.kind = "raise" /\ CaughtByRequestGuard(e.out.exc) IN
    [m |-> e.m,
     response |->
        [sent |-> IF e.out.kind = "return" THEN <<e.out.value>>
                  ELSE IF caught THEN <<ParseErrorResponse(e.out.message)>>
                  ELSE <<>>,
         escaped |-> e.out.kind = "raise" /\ ~caught,
         ran |-> e.ran]]

handle_rpc_request(m, body, env) == Respond(TryBlock(m, body, env))

-----------------------------------------------------------------------------
(* Specification SpecRpc: requests served one after the other              *)

Obj(method, params, id) ==
    JObj([method |-> method, params |-> params, id |-> id])

Xyz(x, y, z) == JObj([x |-> x, y |-> y, z |-> z])

RequestId == JNum(42)

\* request bodies: undecodable ones, JSON values that are no object, objects
\* without method, unknown and unusable methods, and calls of every function
\* with params that fit and params that do not
RequestInputs ==
    { [raw |-> "bad_length"], [raw |-> "empty"], [raw |-> "not_utf8"],
      [raw |-> "invalid_json"] }
    \cup
    { [raw |-> "json", value |-> v] : v \in
        { JNull, JNum(7), JStr("method"), JStr("hello"),
          JArr(<<JStr("method"), RequestId>>),
          JObj(EmptyMembers),
          JObj([id |-> RequestId]),
          JObj([params |-> JArr(<<>>), id |-> JStr("abc")]),
          JObj([method |-> JStr("fly"), id |-> RequestId]),
          JObj([method |-> JStr("fly")]),
          Obj(JStr("fly"), Xyz(JNum(10), JNum(20), JNum(5)), JStr("abc")),
          JObj([method |-> JNull, id |-> RequestId]),
          JObj([method |-> JArr(<<JStr("move_robot")>>), id |-> RequestId]),
          JObj([method |-> JObj(EmptyMembers), id |-> JStr("abc")]),
          Obj(JStr("move_robot"), Xyz(JNum(10), JNum(20), JNum(5)), RequestId),
          Obj(JStr("move_robot"),
              JArr(<<JNum(-MaxPositionX), JNum(MaxPositionY), JNum(MaxPositionZ)>>),
              JStr("abc")),
          Obj(JStr("move_robot"), JArr(<<JNum(99999), JNum(0), JNum(0)>>), RequestId),
          Obj(JStr("move_robot"), Xyz(JNum(0), JNum(0), JNum(-1)), RequestId),
          Obj(JStr("move_robot"), Xyz(JNum(10), JStr("far"), JNum(5)), RequestId),
          Obj(JStr("move_robot"), Xyz(JNum(99999), JStr("far"), JNum(5)), RequestId),
          Obj(JStr("move_robot"), JObj([x |-> JNum(10), y |-> JNum(20)]), RequestId),
          Obj(JStr("move_robot"), JNull, RequestId),
          JObj([method |-> JStr("move_robot"), id |-> RequestId]),
          Obj(JStr("control_gripper"), JObj([open_state |-> JBool(TRUE)]), RequestId),
          Obj(JStr("control_gripper"), JArr(<<JBool(FALSE)>>), JNull),
          Obj(JStr("control_gripper"), JObj([open |-> JBool(TRUE)]), RequestId),
          JObj([method |-> JStr("get_robot_status"), id |-> RequestId]),
          Obj(JStr("get_robot_status"), JStr("now"), RequestId),
          JObj([method |-> JStr("get_robot_position"), id |-> RequestId]),
          JObj([method |-> JStr("capture_image")]),
          JObj([method |-> JStr("emergency_stop"), id |-> RequestId]),
          Obj(JStr("emergency_stop"), JArr(<<JNum(1)>>), RequestId),
          Obj(JStr("reset_emergency_stop"), JArr(<<>>), RequestId),
          Obj(JStr("reset_emergency_stop"), JBool(TRUE), RequestId),
          Obj(JStr("capture_image"), JNum(3), RequestId),
          Obj(JStr("control_gripper"), JStr("open"), RequestId),
          JObj([method |-> JStr("get_available_functions"), id |-> JStr("abc")]),
          JObj([method |-> JStr("list_3d_models"), id |-> RequestId]) } }

\* POST /rpc
HandleRpcRequest(body, env) ==
    LET h == handle_rpc_request(Manager, body, env) IN
    /\ Store(h.m)
    /\ request' = [body |-> body, before |-> Manager]
    /\ response' = h.response
    /\ UNCHANGED <<caller, threads, registry, ci, singleton>>

NextRpc == \E body \in RequestInputs, env \in EnvInputs : HandleRpcRequest(body, env)

SpecRpc == Init /\ [][NextRpc]_vars

-----------------------------------------------------------------------------
(* .github/workflows/generate_matrix.py.  A configuration, as load_config  *)
(* returns it: build_types are the keys of build_config.build_types,       *)
(* examples the items of the examples mapping, in the order of the file;   *)
(* metadata.idf_versions and ci_config.exclude_combinations may be absent. *)

PyBool(b) == [type |-> "bool", b |-> b]

\* line 51: metadata.get('idf_versions', ['release-v5.5'])
IdfVersions(c) ==
    IF "idf_versions" \in DOMAIN c.metadata
    THEN c.metadata.idf_versions
    ELSE <<"release-v5.5">>

\* line 54: config.get('ci_config', {}).get('exclude_combinations', [])
ExcludeCombinations(c) ==
    IF "ci_config" \in DOMAIN c /\ "exclude_combinations" \in DOMAIN c.ci_config
    THEN c.ci_config.exclude_combinations
    ELSE <<>>

is_excluded_AnyKey(entry, exclude_combinations) ==
    \E i \in DOMAIN exclude_combinations :
        \E k \in DOMAIN exclude_combinations[i] :
            k \in DOMAIN entry /\ entry[k] = exclude_combinations[i][k]

\* lines 56-61
is_excluded(entry, exclude_combinations) ==
    \E i \in DOMAIN exclude_combinations :
        \A k \in DOMAIN exclude_combinations[i] :
            k \in DOMAIN entry /\ entry[k] = exclude_combinations[i][k]

\* line 66: not example_config.get('ci_enabled', True); None is falsy
CiSkipped(example_config) ==
    /\ "ci_enabled" \in DOMAIN example_config
    /\ ~(example_config.ci_enabled.type = "bool" /\ example_config.ci_enabled.b)

\* line 68
PerExampleBuildTypes(example_config, global_build_types) ==
    IF "build_types" \in DOMAIN example_config
    THEN example_config.build_types
    ELSE global_build_types

\* lines 71-75
Candidate(idf_version, build_type, example_name) ==
    [idf_version |-> idf_version, build_type |-> build_type,
     example_type |-> example_name]

RECURSIVE Concat(_)
\* the lists of ss appended to one another, in order
Concat(ss) == IF ss = <<>> THEN <<>> ELSE Head(ss) \o Concat(Tail(ss))

\* lines 69-77 for one example: the loops over the versions and build types
ExampleEntries(name, example_config, c) ==
    LET versions == IdfVersions(c)
        types == PerExampleBuildTypes(example_config, c.build_types)
    IN  Concat([i \in DOMAIN versions |->
                  Concat([j \in DOMAIN types |->
                            IF is_excluded(Candidate(versions[i], types[j], name),
                                           ExcludeCombinations(c))
                            THEN <<>>
                            ELSE <<Candidate(versions[i], types[j], name)>>])])

\* lines 43-79
generate_matrix(c) ==
    [include |->
        Concat([k \in DOMAIN c.examples |->
                  IF CiSkipped(c.examples[k].config)
                  THEN <<>>
                  ELSE ExampleEntries(c.examples[k].name, c.examples[k].config, c)])]

\* configurations: metadata with two versions, with one version listed
\* twice, and without idf_versions; examples with and without ci_enabled and
\* build_types; no ci_config, and exclusions naming some or all keys of an
\* entry, a key no entry has, or no key
ConfigInputs ==
    LET Example(name, example_config) == [name |-> name, config |-> example_config]
        MetadataInputs ==
            { [idf_versions |-> <<"release-v5.4", "release-v5.5">>],
              [idf_versions |-> <<"release-v5.5", "release-v5.5">>],
              [project |-> "hf"] }
        ExamplesInputs ==
            { << Example("gpio", EmptyMembers),
                 Example("adc", [ci_enabled |-> PyBool(FALSE)]),
                 Example("pwm", [ci_enabled |-> PyBool(TRUE),
                                 build_types |-> <<"Release">>]) >>,
              << Example("pwm", [build_types |-> <<"Release", "Debug">>]),
                 Example("gpio", [ci_enabled |-> PyBool(TRUE)]) >>,
              << Example("gpio", [ci_enabled |-> NoneValue]),
                 Example("adc", EmptyMembers) >>,
              << Example("adc", [build_types |-> <<>>]),
                 Example("gpio", [build_types |-> <<"Debug", "Debug">>]) >> }
        ExcludeInputs ==
            { <<>>,
              << [build_type |-> "Debug", example_type |-> "gpio"] >>,
              << [idf_version |-> "release-v5.4"], [target |-> "esp32"] >>,
              << [example_type |-> "adc", target |-> "esp32c6"] >>,
              << [idf_version |-> "release-v5.5", build_type |-> "Release",
                  example_type |-> "pwm"] >>,
              << EmptyMembers >> }
    IN  { [build_types |-> <<"Debug", "Release">>, metadata |-> m, examples |-> e]
            : m \in MetadataInputs, e \in ExamplesInputs }
        \cup
        { [build_types |-> <<"Debug", "Release">>, metadata |-> m, examples |-> e,
           ci_config |-> [exclude_combinations |-> x]]
            : m \in MetadataInputs, e \in ExamplesInputs, x \in ExcludeInputs }

\* the script starts: load_config has read one of the configurations
InitMatrix ==
    /\ Unimported
    /\ config \in ConfigInputs
    /\ matrix = NoMatrix

\* line 107: matrix_config = generate_matrix()
GenerateMatrix ==
    /\ matrix = NoMatrix
    /\ matrix' = generate_matrix(config)
    /\ UNCHANGED <<manager, caller, threads, rpc, registry, singleton, config>>

NextMatrix == GenerateMatrix

SpecMatrix == InitMatrix /\ [][NextMatrix]_vars

-----------------------------------------------------------------------------
(* Properties                                                              *)

\* the configured bounds as the specification states them: x and y within
\* plus or minus the maximum, z between 0 and the maximum
OutsideBounds(x, y, z) ==
    \/ x < -MaxPositionX \/ x > MaxPositionX
    \/ y < -MaxPositionY \/ y > MaxPositionY
    \/ z < 0 \/ z > MaxPositionZ

IllegalState == Raised("RuntimeError", "Robot is in emergency stop state")

IsMove == op.name = "move_to_position"
IsGripper == op.name = "control_gripper"
Target == [x |-> op.x, y |-> op.y, z |-> op.z]
Succeeded == ret.kind = "return" /\ ret.value.success

\* the flag is set by emergency_stop, cleared by reset_emergency_stop and left
\* alone by every other call: it is set exactly from an emergency_stop until
\* the next reset_emergency_stop
FlagFollowsCalls ==
    /\ op.name = "emergency_stop" => emergency_stopped
    /\ op.name = "reset_emergency_stop" => ~emergency_stopped
    /\ op.name \notin {"emergency_stop", "reset_emergency_stop"}
           => emergency_stopped = op.before.emergency_stopped

\* C1 as stated: between emergency_stop and reset_emergency_stop every
\* move_to_position and control_gripper call, whatever its arguments, fails with
\* IllegalState; after the reset valid calls succeed.
C1_AnyCallFailsIllegalState ==
    /\ FlagFollowsCalls
    /\ (IsMove \/ IsGripper) /\ op.before.emergency_stopped => ret = IllegalState
    /\ (IsGripper \/ (IsMove /\ ~OutsideBounds(op.x, op.y, op.z)))
           /\ ~op.before.emergency_stopped => Succeeded

\* C1 amended: between emergency_stop and reset_emergency_stop every
\* control_gripper call and every move_to_position call with in-bounds arguments
\* fails with IllegalState, and a move_to_position call with an out-of-bounds
\* coordinate fails with ValueError; after the reset valid calls succeed.
C1_InBoundsCallFailsIllegalState ==
    /\ FlagFollowsCalls
    /\ (IsGripper \/ (IsMove /\ ~OutsideBounds(op.x, op.y, op.z)))
           /\ op.before.emergency_stopped => ret = IllegalState
    /\ IsMove /\ OutsideBounds(op.x, op.y, op.z) /\ op.before.emergency_stopped
           => ret.kind = "raise" /\ ret.exc = "ValueError"
    /\ (IsGripper \/ (IsMove /\ ~OutsideBounds(op.x, op.y, op.z)))
           /\ ~op.before.emergency_stopped => Succeeded

\* an in-bounds move made while stopped has failed with IllegalState
C1_Witness ==
    /\ IsMove /\ ~OutsideBounds(op.x, op.y, op.z)
    /\ op.before.emergency_stopped
    /\ ret = IllegalState

\* C2: under any interleaving of the threads' steps, no step taken while
\* emergency_stopped is set changes the stored position.
C2_NoPositionWriteWhileStopped ==
    [][emergency_stopped => position' = position]_vars

\* the flag is set, a move has failed on it and an earlier move had succeeded
C2_Witness ==
    /\ emergency_stopped
    /\ position # InitialPosition
    /\ \E t \in Threads : outcome[t] = <<"RuntimeError", "move_to_position">>

ThreadTarget(t) == [x |-> call[t].x, y |-> call[t].y, z |-> call[t].z]

\* thread t's move_to_position returns from its body in this step
MoveReturns(t) ==
    /\ call[t].name = "move_to_position"
    /\ pc[t] = "sleep"
    /\ pc'[t] = "idle"

\* C3: with moves running concurrently the stored position only ever changes
\* to the complete target of one move, in the step that move returns, and
\* every returning move has stored exactly its own target: no state holds a
\* mixture of the coordinates of two targets.
C3_NoMixedPosition ==
    [][/\ position' # position =>
            \E t \in Threads : MoveReturns(t) /\ position' = ThreadTarget(t)
       /\ \A t \in Threads : MoveReturns(t) => position' = ThreadTarget(t)]_vars

\* one move has stored its target while another thread's move to a different
\* target is in its simulated delay
C3_Witness ==
    \E t, u \in Threads :
        /\ t # u
        /\ outcome[t] = <<"return">>
        /\ position = [x |-> 10, y |-> 20, z |-> 5]
        /\ pc[u] = "sleep"
        /\ call[u].name = "move_to_position"
        /\ ThreadTarget(u) = [x |-> -MaxPositionX, y |-> MaxPositionY,
                              z |-> MaxPositionZ]

\* C4: at most one thread holds the lock, and every step that changes a field
\* of the manager is taken by a thread that holds it.
C4_WritesUnderLock ==
    [][/\ Cardinality({t \in Threads : held'[t] > 0}) <= 1
       /\ manager' # manager =>
            \E t \in Threads : held[t] > 0 /\ pc'[t] # pc[t]]_vars

\* a thread holds the lock in the middle of a move while an emergency_stop of
\* another thread waits for it
C4_Witness ==
    \E t, u \in Threads :
        /\ held[t] = 1 /\ pc[t] = "sleep" /\ call[t].name = "move_to_position"
        /\ held[u] = 0 /\ pc[u] = "acquire" /\ call[u].name = "emergency_stop"

\* C5: a move_to_position with a coordinate outside the bounds fails with
\* ValueError and leaves position, gripper_open and emergency_stopped as they
\* were.
C5_OutOfBoundsRejected ==
    IsMove /\ OutsideBounds(op.x, op.y, op.z) =>
        /\ ret.kind = "raise" /\ ret.exc = "ValueError"
        /\ position = op.before.position
        /\ gripper_open = op.before.gripper_open
        /\ emergency_stopped = op.before.emergency_stopped

\* move_to_position(99999, 0, 0) was rejected after an earlier move and an
\* earlier control_gripper had changed the state
C5_Witness ==
    /\ IsMove /\ op.x = 99999
    /\ ret.kind = "raise" /\ ret.exc = "ValueError"
    /\ position = [x |-> 10, y |-> 20, z |-> 5]
    /\ gripper_open

-----------------------------------------------------------------------------
(* The Command Dispatcher, under SpecRpc                                   *)

Served == request # NoRequest
IsObject == Served /\ request.body.raw = "json" /\ request.body.value.t = "object"
Members == request.body.value.members
Reply == response.sent[1]
SentId == IF "id" \in DOMAIN Members THEN Members.id ELSE JNull
Calls(name) == IsObject /\ "method" \in DOMAIN Members /\ Members.method = JStr(name)

\* C7: a request body that carries a correlation id gets one response, and
\* the response carries the same id, whatever the outcome.
C7_IdEchoed ==
    IsObject /\ "id" \in DOMAIN Members
        => Len(response.sent) = 1 /\ Reply.body.id = Members.id

\* the method is a name (or another value a registry can be asked for) that
\* was not registered
UnknownMethod ==
    /\ IsObject
    /\ "method" \in DOMAIN Members
    /\ Members.method.t \in {"string", "null", "number", "boolean"}
    /\ \A i \in DOMAIN RpcFunctions : Members.method # JStr(RpcFunctions[i])

\* C8: an unregistered method yields one error envelope with code -32601, the
\* request's id, and the registered names as data; no function runs and the
\* manager's state stays as it was.
C8_UnknownMethod ==
    UnknownMethod
        => /\ Len(response.sent) = 1
           /\ DOMAIN Reply.body = {"jsonrpc", "error", "id"}
           /\ Reply.body.error.code = MethodNotFoundCode
           /\ Reply.body.id = SentId
           /\ Reply.body.error.data = [available_methods |-> RpcFunctions]
           /\ ~response.ran
           /\ Manager = request.before

\* "fly" with params and an id, asked of a stopped robot
C8_Witness ==
    /\ UnknownMethod
    /\ Members.method = JStr("fly")
    /\ "params" \in DOMAIN Members
    /\ Members.id = JStr("abc")
    /\ request.before.emergency_stopped
    /\ Reply.body.error.code = MethodNotFoundCode

\* C9: every request is answered by exactly one JSON-RPC envelope, a result
\* or an error, and no exception leaves handle_rpc_request.
C9_ExactlyOneResponse ==
    Served
        => /\ Len(response.sent) = 1
           /\ ~response.escaped
           /\ Reply.status \in {200, 400}
           /\ Reply.body.jsonrpc = "2.0"
           /\ ("result" \in DOMAIN Reply.body) # ("error" \in DOMAIN Reply.body)

\* a JSON number as the body: the test for "method" raises TypeError, and the
\* request is answered all the same
C9_Witness ==
    /\ Served
    /\ request.body.raw = "json"
    /\ request.body.value = JNum(7)
    /\ Len(response.sent) = 1
    /\ Reply.body.error.code = ParseErrorCode

Params == Members.params

FitsMove ==
    /\ Calls("move_robot")
    /\ "params" \in DOMAIN Members
    /\ \/ Params.t = "object" /\ DOMAIN Params.members = {"x", "y", "z"}
       \/ Params.t = "array" /\ Len(Params.items) = 3

Coord(i) ==
    IF Params.t = "object" THEN Params.members[<<"x", "y", "z">>[i]]
    ELSE Params.items[i]

NumericMove == FitsMove /\ \A i \in 1..3 : Coord(i).t = "number"

MoveOutOfBounds ==
    NumericMove /\ OutsideBounds(Coord(1).n, Coord(2).n, Coord(3).n)

MoveWhileStopped ==
    /\ NumericMove
    /\ ~OutsideBounds(Coord(1).n, Coord(2).n, Coord(3).n)
    /\ request.before.emergency_stopped

GripperWhileStopped ==
    /\ Calls("control_gripper")
    /\ "params" \in DOMAIN Members
    /\ \/ Params.t = "object" /\ DOMAIN Params.members = {"open_state"}
       \/ Params.t = "array" /\ Len(Params.items) = 1
    /\ request.before.emergency_stopped

ManagerFails == MoveOutOfBounds \/ MoveWhileStopped \/ GripperWhileStopped

-----------------------------------------------------------------------------
(* The State Manager's operations one by one, under Spec                   *)

Called(name) == op.name = name

\* C11: emergency_stop returns success from every state and leaves the flag
\* set, reset_emergency_stop returns success from every state and leaves it
\* clear; neither changes another field, and the second of two calls in a
\* row of the same one leaves the whole state as the first left it.
C11_StopAndResetIdempotent ==
    [][ /\ op'.name = "emergency_stop"
            => /\ ret'.kind = "return" /\ ret'.value.success
               /\ Manager' = [Manager EXCEPT !.emergency_stopped = TRUE]
        /\ op'.name = "reset_emergency_stop"
            => /\ ret'.kind = "return" /\ ret'.value.success
               /\ Manager' = [Manager EXCEPT !.emergency_stopped = FALSE]
        /\ op'.name = op.name /\ op.name \in {"emergency_stop", "reset_emergency_stop"}
            => Manager' = Manager ]_vars

\* emergency_stop called on a manager that is stopped already, after a move
C11_Witness ==
    /\ Called("emergency_stop")
    /\ op.before.emergency_stopped
    /\ op.before.position = [x |-> 10, y |-> 20, z |-> 5]
    /\ emergency_stopped

DemoCapture ==
    [success |-> TRUE, image_data |-> DemoImage, demo_mode |-> TRUE,
     message |-> "Demo image captured"]

\* C12 as stated: capture_image succeeds in every state, stopped ones
\* included, and returns the placeholder payload.
C12_CaptureAlwaysSucceeds ==
    Called("capture_image")
        => ret.kind = "return" /\ ret.value.success /\ ret.value.image_data = DemoImage

\* C12 amended: capture_image returns the placeholder payload in every state
\* in which the manager is not stopped, after shutdown too; while the manager
\* is stopped it raises RuntimeError; it never changes the state.
C12_CaptureUnlessStopped ==
    Called("capture_image")
        => /\ Manager = op.before
           /\ ~op.before.emergency_stopped => ret = Returned(DemoCapture)
           /\ op.before.emergency_stopped => ret = IllegalState

\* capture_image on a manager without camera (demo mode forced, or after
\* shutdown), not stopped, with the gripper open
C12_Witness ==
    /\ Called("capture_image")
    /\ ~Truthy(camera)
    /\ ~op.before.emergency_stopped
    /\ op.before.gripper_open
    /\ ret.kind = "return"

-----------------------------------------------------------------------------
(* get_status among several threads, under SpecThreads                     *)

InStatus(t) == pc[t] = "body" /\ call[t].name = "get_status"

\* C13: from the moment a thread's get_status holds the lock until it
\* returns, no step of any thread changes a field of the manager, so the
\* values it reads are those of one moment; it returns, never raises, and
\* the emergency_stopped and gripper_open it returns are the stored ones.
C13_StatusSnapshot ==
    [][ \A t \in Threads :
          InStatus(t)
            => /\ held[t] > 0
               /\ Manager' = Manager
               /\ pc'[t] = "idle"
                    => /\ outcome'[t] = <<"return">>
                       /\ get_status(Manager).out.value.emergency_stopped
                              = emergency_stopped
                       /\ get_status(Manager).out.value.gripper_open
                              = gripper_open ]_vars

\* get_status holds the lock of a stopped manager with the gripper open and
\* without board, while the other thread waits for the lock
C13_Witness ==
    /\ InStatus(1)
    /\ emergency_stopped /\ gripper_open /\ ~Truthy(board)
    /\ position = [x |-> 10, y |-> 20, z |-> 5]
    /\ pc[2] = "acquire"

-----------------------------------------------------------------------------
(* shutdown and control_gripper, under Spec                                *)

\* C14: a move_to_position or control_gripper call that follows shutdown
\* changes neither the position nor gripper_open, whether it fails or returns.
C14_NoChangeAfterShutdown ==
    [][ op.name = "shutdown" /\ op'.name \in {"move_to_position", "control_gripper"}
            => position' = position /\ gripper_open' = gripper_open ]_vars

\* C15: control_gripper(b) on a manager that is not stopped returns success
\* and stores b, for b true and b false, and the get_status that follows
\* reports gripper_open = b.
C15_GripperStored ==
    [][ /\ op'.name = "control_gripper" /\ ~emergency_stopped
            => /\ ret'.kind = "return" /\ ret'.value.success
               /\ gripper_open' = op'.open_state
               /\ ret'.value.gripper_open = op'.open_state
        /\ op.name = "control_gripper" /\ ~op.before.emergency_stopped
                /\ op'.name = "get_status"
            => ret'.kind = "return" /\ ret'.value.gripper_open = op.open_state ]_vars

\* control_gripper(false) has closed a gripper that was open
C15_Witness ==
    /\ IsGripper
    /\ ~op.open_state
    /\ op.before.gripper_open
    /\ ~op.before.emergency_stopped
    /\ Succeeded
    /\ ~gripper_open

-----------------------------------------------------------------------------
(* The dispatcher's error codes and registry, under SpecRpc                *)

\* the body does not decode to an object with a usable method name
NoMethodName ==
    /\ Served
    /\ ~(/\ IsObject
         /\ "method" \in DOMAIN Members
         /\ Members.method.t \notin {"array", "object"})

RegisteredMethod ==
    /\ IsObject
    /\ "method" \in DOMAIN Members
    /\ \E i \in DOMAIN RpcFunctions : Members.method = JStr(RpcFunctions[i])

GivenParams == IF "params" \in DOMAIN Members THEN Members.params ELSE JObj(EmptyMembers)

\* the params can be passed to the function the method names
ArgumentsFit ==
    LET sig == Signature(Members.method.s)
        given == GivenParams
    IN  \/ given.t = "object" /\ DOMAIN given.members = {sig[i] : i \in DOMAIN sig}
        \/ given.t = "array" /\ Len(given.items) = Len(sig)
        \/ given.t \notin {"object", "array"} /\ Len(sig) = 0

\* the call of the registered function raises
CallRaises == RegisteredMethod /\ ~ArgumentsFit

\* the code of the error envelope sent, 0 when a result envelope was sent
ErrorCode ==
    IF Len(response.sent) = 1 /\ "error" \in DOMAIN Reply.body
    THEN Reply.body.error.code
    ELSE 0

\* C16: an error envelope carries -32700, -32601 or -32603: -32700 exactly
\* when the body yields no method name, -32601 exactly when the method is a
\* name that is not registered, -32603 exactly when the call of the
\* registered function raises; every other request gets a result envelope.
C16_ErrorCodes ==
    Served
        => /\ Len(response.sent) = 1
           /\ ErrorCode \in {0, ParseErrorCode, MethodNotFoundCode, InternalErrorCode}
           /\ NoMethodName <=> ErrorCode = ParseErrorCode
           /\ UnknownMethod <=> ErrorCode = MethodNotFoundCode
           /\ CallRaises <=> ErrorCode = InternalErrorCode
           /\ ErrorCode = 0 <=> "result" \in DOMAIN Reply.body

\* move_robot with two of its three arguments
C16_Witness ==
    /\ Calls("move_robot")
    /\ "params" \in DOMAIN Members
    /\ Members.params.t = "object"
    /\ DOMAIN Members.params.members = {"x", "y"}
    /\ ErrorCode = InternalErrorCode


NameSet(names) == {names[i] : i \in DOMAIN names}

\* C17: rpc_functions holds the names registered at startup in every state
\* that requests can lead to; the list of get_available_functions and the
\* list in the method-not-found diagnostic are those same names.
C17_RegistryFixed ==
    /\ rpc_functions = RpcFunctions
    /\ Calls("get_available_functions") /\ ArgumentsFit
        => /\ "result" \in DOMAIN Reply.body
           /\ NameSet(Reply.body.result.functions) = NameSet(RpcFunctions)
           /\ Reply.body.result.count = Cardinality(NameSet(RpcFunctions))
    /\ UnknownMethod
        => NameSet(Reply.body.error.data.available_methods) = NameSet(RpcFunctions)

\* get_available_functions asked after the robot was stopped and moved
C17_Witness ==
    /\ Calls("get_available_functions")
    /\ ArgumentsFit
    /\ request.before.emergency_stopped
    /\ request.before.position # InitialPosition
    /\ Len(Reply.body.result.functions) = Len(RpcFunctions)

-----------------------------------------------------------------------------
(* The availability flag, under Spec                                       *)

\* C18: robot_available is false in every state, whether demo mode was forced
\* or the board was constructed, and whatever was called since; get_status
\* reports robot_available false and demo_mode true, and no result of another
\* call reports a demo_mode that is not true.
C18_NeverAvailable ==
    /\ ~robot_available
    /\ Truthy(board) => ~board.connected
    /\ Called("get_status")
        => /\ ret.kind = "return"
           /\ ~ret.value.robot_available
           /\ ret.value.demo_mode
    /\ ret.kind = "return" /\ ~Called("shutdown") /\ "demo_mode" \in DOMAIN ret.value
        => ret.value.demo_mode

\* get_status of a manager that constructed its board and has moved since
C18_Witness ==
    /\ Called("get_status")
    /\ Truthy(board)
    /\ position # InitialPosition
    /\ ret.value.demo_mode

-----------------------------------------------------------------------------
(* Termination of the calls, under SpecThreadsFair                         *)

-----------------------------------------------------------------------------
(* The singleton, under SpecSingleton                                      *)

\* C20: there is never more than one RobotManager object and every call of
\* RobotManager() returns it; lines 36-46 have run exactly once from the end
\* of the import on; and a construction made after the import, by one thread
\* or by several at once, leaves the manager's fields and its lock as they
\* are, whatever the calls made in between did to them.
C20_SingletonInitialisedOnce ==
    /\ [](/\ instance \in {0, 1}
          /\ \A t \in Threads : got[t] \in {0, instance}
          /\ init_runs <= 1
          /\ imported => instance = 1 /\ initialized = "True" /\ init_runs = 1)
    /\ [][ imported /\ ctor' # ctor =>
             /\ Manager' = Manager
             /\ held' = held
             /\ instance' = instance
             /\ initialized' = initialized
             /\ init_runs' = init_runs ]_vars

\* after the import and after calls that changed the state, two threads are
\* in RobotManager() at once, both past __new__ with the one object in hand
C20_Witness ==
    /\ imported
    /\ emergency_stopped /\ gripper_open /\ position # InitialPosition
    /\ ctor[1] = "init" /\ ctor[2] = "init"
    /\ got[1] = 1 /\ got[2] = 1

-----------------------------------------------------------------------------
(* The result and the delay of a move, under Spec                          *)

\* C21: a move_to_position that succeeded returned the requested (x, y, z)
\* as its position, and the position stored when it returned is that one.
C21_ReturnedPositionIsStored ==
    IsMove /\ Succeeded
        => /\ ret.value.position = Target
           /\ ret.value.position = position

\* a successful move from (10, 20, 5) to the corner (-max, max, max)
C21_Witness ==
    /\ IsMove /\ Succeeded
    /\ op.before.position = [x |-> 10, y |-> 20, z |-> 5]
    /\ Target = [x |-> -MaxPositionX, y |-> MaxPositionY, z |-> MaxPositionZ]
    /\ position = Target

\* the caller's last call was a successful move
Moved == IsMove /\ Succeeded

\* the absolute coordinate deltas of the caller's last move
Deltas ==
    [a \in {"x", "y", "z"} |-> Abs(Target[a] - op.before.position[a])]

\* C22: the delay of a successful move grows with the absolute deltas on all
\* three axes: of two successive successful moves, the second covering at
\* least the first's delta on every axis and more on one of them, the second
\* sleeps longer.
C22_DelayGrowsOnEveryAxis ==
    [][ /\ Moved /\ Moved'
        /\ op' # op
        /\ \A a \in {"x", "y", "z"} : Deltas[a] <= Deltas'[a]
        /\ \E a \in {"x", "y", "z"} : Deltas[a] < Deltas'[a]
        => slept < slept' ]_vars

-----------------------------------------------------------------------------
(* The arguments of a call, under SpecRpc                                  *)

\* the registered function was called and its arguments were accepted
FunctionRan == response.ran

\* C23: for a registered method, an object as params is passed by name (the
\* function runs exactly when the names are those of its parameters), an
\* array by position (it runs exactly when the length fits), and without
\* params or with any other value the function is called without arguments
\* (it runs exactly when it takes none); a move or a gripper command that ran
\* while the manager was not stopped has used the named, or the positional,
\* values as x, y, z, or as open_state.
C23_ParamsByShape ==
    Served /\ RegisteredMethod
        => LET sig == Signature(Members.method.s) IN
           /\ "params" \notin DOMAIN Members => (FunctionRan <=> Len(sig) = 0)
           /\ "params" \in DOMAIN Members =>
                CASE Params.t = "object" ->
                         FunctionRan <=> DOMAIN Params.members = NameSet(sig)
                  [] Params.t = "array" ->
                         FunctionRan <=> Len(Params.items) = Len(sig)
                  [] OTHER -> FunctionRan <=> Len(sig) = 0
           /\ NumericMove /\ ~MoveOutOfBounds /\ ~request.before.emergency_stopped
                => /\ FunctionRan
                   /\ position = [x |-> Coord(1).n, y |-> Coord(2).n, z |-> Coord(3).n]
           /\ Calls("control_gripper") /\ FunctionRan
                /\ ~request.before.emergency_stopped
                => gripper_open = IF Params.t = "object"
                                  THEN Params.members.open_state.b
                                  ELSE Params.items[1].b

\* move_robot with an array as params has moved the robot to the corner
C23_Witness ==
    /\ Calls("move_robot")
    /\ "params" \in DOMAIN Members /\ Params.t = "array"
    /\ FunctionRan
    /\ request.before.position = [x |-> 10, y |-> 20, z |-> 5]
    /\ position = [x |-> -MaxPositionX, y |-> MaxPositionY, z |-> MaxPositionZ]

-----------------------------------------------------------------------------
(* The CI matrix, under SpecMatrix                                         *)

Generated == matrix # NoMatrix
Include == matrix.include
Examples == config.examples
Range(seq) == {seq[i] : i \in DOMAIN seq}
Count(seq, v) == Cardinality({i \in DOMAIN seq : seq[i] = v})
Position(seq, v) == CHOOSE i \in DOMAIN seq : seq[i] = v
ExamplePosition(name) == CHOOSE k \in DOMAIN Examples : Examples[k].name = name
Versions == IdfVersions(config)
BuildTypes(k) == PerExampleBuildTypes(Examples[k].config, config.build_types)

\* ci_enabled is not the value false
NotFalse(k) ==
    "ci_enabled" \in DOMAIN Examples[k].config
        => Examples[k].config.ci_enabled # PyBool(FALSE)

\* ci_enabled is absent or true
AbsentOrTrue(k) ==
    "ci_enabled" \in DOMAIN Examples[k].config
        => Examples[k].config.ci_enabled = PyBool(TRUE)

\* every key/value pair of the combination is a pair of the entry
Matched(entry, combination) ==
    \A k \in DOMAIN combination :
        k \in DOMAIN entry /\ entry[k] = combination[k]

Excluded(entry) == \E x \in Range(ExcludeCombinations(config)) : Matched(entry, x)

\* the entries of the examples in ks that no combination excludes
EntriesOf(ks) ==
    { e \in UNION { { Candidate(v, b, Examples[k].name)
                        : v \in Range(Versions), b \in Range(BuildTypes(k)) }
                    : k \in ks } : ~Excluded(e) }

\* entry a comes before entry b in example / version / build-type order
Before(a, b) ==
    LET ea == ExamplePosition(a.example_type)
        eb == ExamplePosition(b.example_type)
        va == Position(Versions, a.idf_version)
        vb == Position(Versions, b.idf_version)
        ta == Position(BuildTypes(ea), a.build_type)
        tb == Position(BuildTypes(ea), b.build_type)
    IN  \/ ea < eb
        \/ ea = eb /\ va < vb
        \/ ea = eb /\ va = vb /\ ta < tb

\* no version and no build type is listed twice
NoRepeats ==
    /\ \A v \in Range(Versions) : Count(Versions, v) = 1
    /\ \A k \in DOMAIN Examples :
           \A b \in Range(BuildTypes(k)) : Count(BuildTypes(k), b) = 1

\* C24 as stated: include holds exactly the entries of the examples whose
\* ci_enabled is not false, for every version and every build type of the
\* example, minus the excluded ones, each once, in example / version /
\* build-type order.
C24_EachEntryOnce ==
    Generated
        => /\ Range(Include) = EntriesOf({k \in DOMAIN Examples : NotFalse(k)})
           /\ \A e \in Range(Include) : Count(Include, e) = 1
           /\ \A p, q \in DOMAIN Include : p < q => Before(Include[p], Include[q])

\* C24 amended: include holds exactly the entries of the examples whose
\* ci_enabled is absent or true (a null ci_enabled disables like false), for
\* every version and every build type of the example, minus the excluded
\* ones; an entry appears once for each time its version is listed times each
\* time its build type is listed; the examples keep their order, and when no
\* list repeats an element the entries are in example / version / build-type
\* order, each once.
C24_EntriesPerListing ==
    Generated
        => /\ Range(Include) = EntriesOf({k \in DOMAIN Examples : AbsentOrTrue(k)})
           /\ \A e \in Range(Include) :
                  Count(Include, e) =
                      Count(Versions, e.idf_version)
                      * Count(BuildTypes(ExamplePosition(e.example_type)), e.build_type)
           /\ \A p, q \in DOMAIN Include :
                  p < q => ExamplePosition(Include[p].example_type)
                              <= ExamplePosition(Include[q].example_type)
           /\ NoRepeats =>
                  \A p, q \in DOMAIN Include : p < q => Before(Include[p], Include[q])

\* gpio without its Debug builds, adc disabled, pwm with its own build type,
\* for two versions
C24_Witness ==
    /\ Generated
    /\ "ci_config" \in DOMAIN config
    /\ Len(Examples) = 3
    /\ Len(Include) = 4
    /\ Include[1] = Candidate("release-v5.4", "Release", "gpio")
    /\ Include[2] = Candidate("release-v5.5", "Release", "gpio")
    /\ Include[4] = Candidate("release-v5.5", "Release", "pwm")

-----------------------------------------------------------------------------
(* Validation and the lock, under SpecThreads                              *)

Rejected == <<"ValueError", "move_to_position">>

\* C25: a move_to_position with a coordinate out of range never gets as far
\* as the lock or the check of the stop flag, so it cannot fail with
\* RuntimeError; a thread outside a call can make such a call in every state,
\* whoever holds the lock and whatever the flag; and the step in which the
\* call fails with ValueError is the whole call: the thread takes no lock,
\* waits for none and changes nothing.
C25_ValidationBeforeLock ==
    /\ [](\A t \in Threads :
            /\ call[t].name = "move_to_position"
                 => ~OutsideBounds(call[t].x, call[t].y, call[t].z)
            /\ pc[t] = "idle" => ENABLED ThreadMoveToPosition(t, 99999, 0, 0))
    /\ [][\A t \in Threads :
            outcome'[t] = Rejected /\ outcome[t] # Rejected
                => /\ pc[t] = "idle" /\ pc'[t] = "idle"
                   /\ held' = held
                   /\ manager' = manager]_vars

\* thread 1's move was rejected with ValueError; the stop flag is set and
\* thread 2 holds the lock, about to fail on the flag
C25_Witness ==
    /\ outcome[1] = Rejected /\ pc[1] = "idle"
    /\ emergency_stopped
    /\ held[2] = 1 /\ pc[2] = "check"

-----------------------------------------------------------------------------
(* The handlers' own guards, under SpecRpc                                 *)

\* a call the manager refuses because the stop flag is set
RefusedWhileStopped ==
    /\ \E name \in {"move_robot", "control_gripper", "get_robot_position",
                    "capture_image"} : Calls(name)
    /\ ArgumentsFit
    /\ Calls("move_robot") => NumericMove /\ ~MoveOutOfBounds
    /\ request.before.emergency_stopped

\* C26: for a registered method the envelope with code -32603 is sent exactly
\* when the params cannot be bound to the function's signature, in which case
\* the function has not run; in every other case the function has run and a
\* result envelope is sent with status 200, also when the manager raised:
\* the result then carries the error text.
C26_HandlersCatchEverything ==
    Served /\ RegisteredMethod
        => /\ Len(response.sent) = 1 /\ Reply.status = 200
           /\ ErrorCode = InternalErrorCode <=> ~ArgumentsFit
           /\ ~ArgumentsFit => ~FunctionRan
           /\ ArgumentsFit => /\ FunctionRan
                              /\ DOMAIN Reply.body = {"jsonrpc", "result", "id"}
           /\ RefusedWhileStopped \/ MoveOutOfBounds
                => "error" \in DOMAIN Reply.body.result
           /\ FitsMove /\ (\E i \in 1..3 : ~IsNumber(Coord(i)))
                => "error" \in DOMAIN Reply.body.result

\* get_robot_position asked of a stopped robot: a result with the error text
C26_Witness ==
    /\ Calls("get_robot_position")
    /\ request.before.emergency_stopped
    /\ FunctionRan
    /\ "result" \in DOMAIN Reply.body
    /\ Reply.body.result.error = "Position error: " \o EStopMessage

-----------------------------------------------------------------------------
(* A move in its delay and an emergency stop, under SpecThreads            *)

\* thread t's move_to_position has passed the check of the stop flag
MovePastCheck(t) ==
    call[t].name = "move_to_position" /\ pc[t] \in {"body", "sleep"}

\* C27: while a thread's move_to_position is past the check (in its delay
\* included) it holds the lock and the flag is not set; no step of another
\* thread sets the flag, lets an emergency_stop past the lock or changes the
\* position; and the move leaves only by storing its target and returning.
C27_StopWaitsForMove ==
    [][\A t \in Threads :
         MovePastCheck(t)
            => /\ held[t] = 1 /\ ~emergency_stopped
               /\ emergency_stopped' = emergency_stopped
               /\ \A u \in Threads \ {t} :
                      call[u].name = "emergency_stop" /\ pc[u] = "acquire"
                          => /\ pc'[u] = "acquire"
                             /\ outcome'[u] = <<"none">>
               /\ pc'[t] = pc[t] => position' = position
               /\ pc'[t] = "idle"
                      => /\ position' = ThreadTarget(t)
                         /\ outcome'[t] = <<"return">>]_vars

\* thread 1 sleeps in its move to (10, 20, 5), not yet stored, while the
\* emergency_stop of thread 2 waits for the lock
C27_Witness ==
    /\ pc[1] = "sleep" /\ call[1].name = "move_to_position"
    /\ ThreadTarget(1) = [x |-> 10, y |-> 20, z |-> 5]
    /\ position = InitialPosition
    /\ pc[2] = "acquire" /\ call[2].name = "emergency_stop"
    /\ ~emergency_stopped

-----------------------------------------------------------------------------
(* Writers of the fields and reads while stopped, under Spec               *)

\* the caller's last call raised
Failed == ret.kind = "raise"

\* C28: position differs from what it was before the last call only after a
\* successful move_to_position, gripper_open only after a successful
\* control_gripper, emergency_stopped only after emergency_stop or
\* reset_emergency_stop; get_status, get_position, capture_image, shutdown
\* and every call that failed have left the three fields as they were.
C28_SingleWriters ==
    /\ position # op.before.position => IsMove /\ Succeeded
    /\ gripper_open # op.before.gripper_open => IsGripper /\ Succeeded
    /\ emergency_stopped # op.before.emergency_stopped
           => op.name \in {"emergency_stop", "reset_emergency_stop"}
    /\ \/ op.name \in {"get_status", "get_position", "capture_image", "shutdown"}
       \/ Failed
           => /\ position = op.before.position
              /\ gripper_open = op.before.gripper_open
              /\ emergency_stopped = op.before.emergency_stopped

\* get_position has returned a varied position of a board-equipped manager
\* that had been moved, and the stored position is still the moved one
C28_Witness ==
    /\ Called("get_position")
    /\ Truthy(board)
    /\ ret.kind = "return"
    /\ position = [x |-> 10, y |-> 20, z |-> 5]
    /\ ret.value.position = [x |-> 22, y |-> 42, z |-> 11]
    /\ gripper_open

\* the returned position, in halves of a unit, is within 1 unit (x, y) and
\* half a unit (z) of the stored one
NearStored(p) ==
    /\ Abs(p.x - 2 * position.x) <= 2
    /\ Abs(p.y - 2 * position.y) <= 2
    /\ Abs(p.z - 2 * position.z) <= 1

\* C29: made while the flag is set, get_position fails with the RuntimeError
\* of the stopped state, as an in-bounds move and control_gripper do, while
\* get_status, emergency_stop, reset_emergency_stop and shutdown return;
\* made while the flag is not set, and so right after reset_emergency_stop,
\* get_position returns a position near the stored one.
C29_ReadFailsWhileStopped ==
    /\ [](/\ op.before.emergency_stopped
              => /\ Called("get_position") => ret = IllegalState
                 /\ IsMove /\ ~OutsideBounds(op.x, op.y, op.z) => ret = IllegalState
                 /\ IsGripper => ret = IllegalState
                 /\ op.name \in {"get_status", "emergency_stop",
                                 "reset_emergency_stop", "shutdown"}
                        => ret.kind = "return"
          /\ Called("get_position") /\ ~op.before.emergency_stopped
              => ret.kind = "return" /\ NearStored(ret.value.position))
    /\ [][ /\ op.name = "reset_emergency_stop" /\ op.before.emergency_stopped
           /\ op'.name = "get_position"
           => ret'.kind = "return" /\ position' = position ]_vars

\* get_position has failed on a stopped manager that had been moved
C29_Witness ==
    /\ Called("get_position")
    /\ op.before.emergency_stopped
    /\ ret = IllegalState
    /\ position = [x |-> -MaxPositionX, y |-> MaxPositionY, z |-> MaxPositionZ]

-----------------------------------------------------------------------------
(* The accepted region of a move, under Spec                               *)

\* the first axis, in the order x, y, z, on which the target leaves the box
FirstViolatedAxis ==
    IF op.x < -MaxPositionX \/ op.x > MaxPositionX THEN "X"
    ELSE IF op.y < -MaxPositionY \/ op.y > MaxPositionY THEN "Y"
    ELSE "Z"

\* C30: a move_to_position fails with ValueError exactly when the target is
\* outside the closed box [-max_x, max_x] x [-max_y, max_y] x [0, max_z]: a
\* target on the boundary is not rejected, a negative z is, and the error
\* names the first violated axis in the order x, y, z.
C30_ClosedBox ==
    IsMove
        => /\ (Failed /\ ret.exc = "ValueError") <=> OutsideBounds(op.x, op.y, op.z)
           /\ OutsideBounds(op.x, op.y, op.z)
                => ret.message = RangeMessage(FirstViolatedAxis)
           /\ Abs(op.x) = MaxPositionX /\ Abs(op.y) = MaxPositionY
                /\ op.z \in {0, MaxPositionZ} /\ ~op.before.emergency_stopped
                => Succeeded /\ position = Target
           /\ op.z < 0 => Failed /\ ret.exc = "ValueError"

\* a target outside the box on y and on z: the error names y
C30_Witness ==
    /\ IsMove
    /\ op.x = 0 /\ op.y = MaxPositionY + 1 /\ op.z = -1
    /\ Failed
    /\ ret.message = RangeMessage("Y")

====
